---- MODULE Spec2Model ----
(***************************************************************************)
(* Gita-Server: a verse store (database.py), a text normalizer and a       *)
(* content provider (gemini_utils.py), the query endpoint (app.py) and the *)
(* batch populator / enhancer scripts (populate_db.py, enhance_db.py).     *)
(*                                                                         *)
(* Text is a sequence of one-character strings.  Python's None / SQL NULL  *)
(* is the one-element sequence None, which no text can equal because every *)
(* element of a text is a single character.                                *)
(***************************************************************************)
EXTENDS Integers, Sequences, FiniteSets, TLC

\* ---------------------------------------------------------------- bounds
\* number of /verse requests, any of which may be served concurrently
NumReq == 2
\* verses per chapter of the (shrunk) chapter -> verse-count table
MaxVerse == 1
\* longest text given to clean_text in SpecNorm
MaxLen == 4
\* process starts (runs of init_db) on one database file
MaxRuns == 2

None == <<"None">>

\* Python truthiness of an optional text: neither None nor "".
Truthy(t) == t # None /\ t # <<>>

\* ---------------------------------------------------- text normalizer
\* str.isspace / regex \s, for the one whitespace character of the alphabet
IsSpace(c) == c = " "

\* text.replace('**', ''): non-overlapping occurrences, left to right
RECURSIVE replace_stars(_)
replace_stars(s) ==
    IF Len(s) < 2 THEN s
    ELSE IF s[1] = "*" /\ s[2] = "*" THEN replace_stars(SubSeq(s, 3, Len(s)))
    ELSE <<s[1]>> \o replace_stars(Tail(s))

\* length of the whitespace run that starts at index i
RECURSIVE SpaceRun(_, _)
SpaceRun(s, i) ==
    IF i <= Len(s) /\ IsSpace(s[i]) THEN 1 + SpaceRun(s, i + 1) ELSE 0

\* index of the first ")" after index j, 0 when there is none
FirstClose(s, j) ==
    LET ks == {k \in (j + 1)..Len(s) : s[k] = ")"}
    IN  IF ks = {} THEN 0 ELSE CHOOSE k \in ks : \A m \in ks : k <= m

\* last index of the match of \s*\([^)]*\)\s* that starts at index i, 0 when
\* the pattern does not match there
MatchEnd(s, i) ==
    LET j == i + SpaceRun(s, i)
    IN  IF j <= Len(s) /\ s[j] = "(" /\ FirstClose(s, j) # 0
        THEN FirstClose(s, j) + SpaceRun(s, FirstClose(s, j) + 1)
        ELSE 0

\* re.sub(r'\s*\([^)]*\)\s*', '', s), scanning from index i
RECURSIVE re_sub(_, _)
re_sub(s, i) ==
    IF i > Len(s) THEN <<>>
    ELSE IF MatchEnd(s, i) # 0 THEN re_sub(s, MatchEnd(s, i) + 1)
    ELSE <<s[i]>> \o re_sub(s, i + 1)

RECURSIVE lstrip(_)
lstrip(s) == IF s # <<>> /\ IsSpace(s[1]) THEN lstrip(Tail(s)) ELSE s

RECURSIVE rstrip(_)
rstrip(s) ==
    IF s # <<>> /\ IsSpace(s[Len(s)]) THEN rstrip(SubSeq(s, 1, Len(s) - 1)) ELSE s

\* str.strip()
strip(s) == rstrip(lstrip(s))

\* clean_text of gemini_utils.py and (the same code) of cleanup_db.py
clean_text(text) ==
    IF ~Truthy(text) THEN text ELSE strip(re_sub(replace_stars(text), 1))

\* ---------------------------------------------------- content provider
\* str.find: 0-based index of the first occurrence of sub in text, else -1
find(text, sub) ==
    LET at == {i \in 0..(Len(text) - Len(sub)) :
                 SubSeq(text, i + 1, i + Len(sub)) = sub}
    IN  IF at = {} THEN -1 ELSE CHOOSE i \in at : \A j \in at : i <= j

\* Python's text[a:b] for 0 <= a and b <= len(text)
slice(text, a, b) == SubSeq(text, a + 1, b)

\* The labels, each shortened to two characters; as in the source, no label
\* of one parser is a substring of another label of the same parser.
sanskrit_label == <<"S", ":">>
telugu_verse_label == <<"V", ":">>
telugu_meaning_label == <<"M", ":">>
polished_verse_label == <<"P", ":">>
polished_meaning_label == <<"Q", ":">>
description_label == <<"D", ":">>

Failure == <<None, None, None>>

\* A reply of the completion API: kind "ok" carries the completion text,
\* "http_error" is a RequestException (transport failure or bad status),
\* "no_content" a reply without candidates or content.
Reply(kind, text) == [kind |-> kind, text |-> text]

\* Replies the model lets the API give to a fetch prompt:
\* two well-formed completions with different verse text (the second with
\* markdown and a parenthetical note to clean), one with the labels out of
\* order, a transport failure and a reply without content.
FetchReplies ==
    { Reply("ok", <<"S", ":", "a", "V", ":", "a", "M", ":", "a">>),
      Reply("ok", <<"S", ":", "a", "V", ":", "*", "*", "b", "M", ":", "b", " ", "(", "a", ")">>),
      Reply("ok", <<"V", ":", "a", "S", ":", "a", "M", ":", "a">>),
      Reply("http_error", <<>>),
      Reply("no_content", <<>>) }

\* Replies to an enhance prompt: a well-formed completion, one whose three
\* sections are empty after cleaning, one with the labels out of order, a
\* transport failure and a reply without content.
EnhanceReplies ==
    { Reply("ok", <<"P", ":", "c", "Q", ":", "c", "D", ":", "c">>),
      Reply("ok", <<"P", ":", "(", "c", ")", "Q", ":", "D", ":">>),
      Reply("ok", <<"Q", ":", "c", "P", ":", "c", "D", ":", "c">>),
      Reply("http_error", <<>>),
      Reply("no_content", <<>>) }

\* ------------------------------------------------------------ state
VARIABLES
    store,          \* rows of table verses
    nextId,         \* AUTOINCREMENT: the id the next inserted row gets
    GEMINI_API_KEY, \* TRUE iff the credential is set in the environment
    req,            \* the /verse requests
    out,            \* the request answered last, with its response
    served,         \* per key, the verse text answered from a fetch so far
    pop,            \* the populate_db.py run
    enh,            \* the enhance_db.py run
    norm,           \* clean_text applied once and twice to one text
    parse,          \* one parser applied to one reply of the API
    call,           \* one operation of database.py called on its own
    schema,         \* table verses as database.init_db finds and leaves it
    cln             \* the cleanup_db.py run

sysvars == <<store, nextId, GEMINI_API_KEY, req, out, served, pop, enh>>
vars == <<store, nextId, GEMINI_API_KEY, req, out, served, pop, enh, norm, parse, call, schema, cln>>

\* -------------------------------------------------------------- store
\* One row of table verses (database.init_db's CREATE TABLE).
Row(id, chapter, verse, sanskrit, tverse, tmeaning, pverse, pmeaning, desc) ==
    [id |-> id, chapter |-> chapter, verse |-> verse,
     sanskrit_verse_telugu_script |-> sanskrit,
     telugu_verse |-> tverse, telugu_meaning |-> tmeaning,
     polished_telugu_verse |-> pverse, polished_telugu_meaning |-> pmeaning,
     telugu_description |-> desc]

TextColumns ==
    {"sanskrit_verse_telugu_script", "telugu_verse", "telugu_meaning",
     "polished_telugu_verse", "polished_telugu_meaning", "telugu_description"}

RowsOf(rows, chapter, verse) ==
    {r \in rows : r.chapter = chapter /\ r.verse = verse}

\* cursor.fetchone(): no row is the empty set, a row is a one-element set
fetchone(rows) ==
    IF rows = {} THEN {}
    ELSE {CHOOSE r \in rows : \A q \in rows : r.id <= q.id}

\* database.get_verse_from_db
get_verse_from_db(chapter, verse) == fetchone(RowsOf(store, chapter, verse))

\* insert_verse_into_db with the column list of the earlier schema
insert_without_sanskrit(chapter, verse, sanskrit, tverse, tmeaning) ==
    IF RowsOf(store, chapter, verse) # {}
    THEN [ok |-> FALSE, store |-> store, nextId |-> nextId]
    ELSE [ok |-> TRUE,
          store |-> store \cup {Row(nextId, chapter, verse, None, tverse,
                                    tmeaning, None, None, None)},
          nextId |-> nextId + 1]

\* insert_verse_into_db without the UNIQUE(chapter, verse) constraint
insert_without_unique(chapter, verse, sanskrit, tverse, tmeaning) ==
    [ok |-> TRUE,
     store |-> store \cup {Row(nextId, chapter, verse, sanskrit, tverse,
                               tmeaning, None, None, None)},
     nextId |-> nextId + 1]

\* insert_verse_into_db as INSERT OR REPLACE: an existing row is overwritten
insert_or_replace(chapter, verse, sanskrit, tverse, tmeaning) ==
    [ok |-> TRUE,
     store |-> {r \in store : ~(r.chapter = chapter /\ r.verse = verse)}
                 \cup {Row(nextId, chapter, verse, sanskrit, tverse,
                           tmeaning, None, None, None)},
     nextId |-> nextId + 1]

\* insert_verse_into_db storing the Sanskrit text in the telugu_verse column
insert_wrong_column(chapter, verse, sanskrit, tverse, tmeaning) ==
    IF RowsOf(store, chapter, verse) # {}
    THEN [ok |-> FALSE, store |-> store, nextId |-> nextId]
    ELSE [ok |-> TRUE,
          store |-> store \cup {Row(nextId, chapter, verse, sanskrit, sanskrit,
                                    tmeaning, None, None, None)},
          nextId |-> nextId + 1]

\* insert_verse_into_db that also fills the polished columns
insert_with_polished(chapter, verse, sanskrit, tverse, tmeaning) ==
    IF RowsOf(store, chapter, verse) # {}
    THEN [ok |-> FALSE, store |-> store, nextId |-> nextId]
    ELSE [ok |-> TRUE,
          store |-> store \cup {Row(nextId, chapter, verse, sanskrit, tverse,
                                    tmeaning, tverse, tmeaning, None)},
          nextId |-> nextId + 1]

\* database.insert_verse_into_db: UNIQUE(chapter, verse) raises
\* IntegrityError, which is caught and answered False; otherwise the row is
\* added under the next AUTOINCREMENT id and the answer is True.
insert_verse_into_db(chapter, verse, sanskrit, tverse, tmeaning) ==
    IF RowsOf(store, chapter, verse) # {}
    THEN [ok |-> FALSE, store |-> store, nextId |-> nextId]
    ELSE [ok |-> TRUE,
          store |-> store \cup {Row(nextId, chapter, verse, sanskrit, tverse,
                                    tmeaning, None, None, None)},
          nextId |-> nextId + 1]

\* update_verse_with_enhancements as an upsert: a missing row is created
update_or_insert(chapter, verse, sanskrit, pverse, pmeaning, desc) ==
    [ok |-> TRUE,
     store |-> IF RowsOf(store, chapter, verse) = {}
               THEN store \cup {Row(nextId, chapter, verse, sanskrit, None,
                                    None, pverse, pmeaning, desc)}
               ELSE {IF r.chapter = chapter /\ r.verse = verse
                     THEN [r EXCEPT !.sanskrit_verse_telugu_script = sanskrit,
                                    !.polished_telugu_verse = pverse,
                                    !.polished_telugu_meaning = pmeaning,
                                    !.telugu_description = desc]
                     ELSE r : r \in store}]

\* database.update_verse_with_enhancements: True iff a row matched
update_verse_with_enhancements(chapter, verse, sanskrit, pverse, pmeaning, desc) ==
    [ok |-> RowsOf(store, chapter, verse) # {},
     store |-> {IF r.chapter = chapter /\ r.verse = verse
                THEN [r EXCEPT !.sanskrit_verse_telugu_script = sanskrit,
                               !.polished_telugu_verse = pverse,
                               !.polished_telugu_meaning = pmeaning,
                               !.telugu_description = desc]
                ELSE r : r \in store}]

\* rows in ORDER BY chapter, verse (then id) as a sequence
RECURSIVE OrderBy(_)
OrderBy(rows) ==
    IF rows = {} THEN <<>>
    ELSE LET first == CHOOSE r \in rows : \A q \in rows :
                        \/ r.chapter < q.chapter
                        \/ r.chapter = q.chapter /\ r.verse < q.verse
                        \/ r.chapter = q.chapter /\ r.verse = q.verse /\ r.id <= q.id
         IN  <<first>> \o OrderBy(rows \ {first})

\* database.get_verses_to_enhance: five columns of the rows that lack the
\* polished verse or the description
get_verses_to_enhance ==
    LET need == {r \in store : r.polished_telugu_verse = None
                               \/ r.telugu_description = None}
        sorted == OrderBy(need)
    IN  [i \in 1..Len(sorted) |->
            [chapter |-> sorted[i].chapter, verse |-> sorted[i].verse,
             sanskrit_verse_telugu_script |-> sorted[i].sanskrit_verse_telugu_script,
             telugu_verse |-> sorted[i].telugu_verse,
             telugu_meaning |-> sorted[i].telugu_meaning]]

\* database.get_all_verses: every row, ORDER BY chapter, verse
get_all_verses == OrderBy(store)

\* ------------------------------------------------------------- schema
\* The columns CREATE TABLE gives every table, and the six text columns in
\* the order in which init_db tests for them (database.py lines 83-105).
KeyColumns == <<"id", "chapter", "verse">>

OptionalColumns ==
    <<"sanskrit_verse_telugu_script", "telugu_verse", "telugu_meaning",
      "polished_telugu_verse", "polished_telugu_meaning", "telugu_description">>

Range(f) == {f[i] : i \in DOMAIN f}

\* Table verses in the database file: whether sqlite_master lists it, its
\* columns in the order of PRAGMA table_info, whether it carries
\* UNIQUE(chapter, verse), and its rows (a row maps each column to a value).
Table(exists, columns, unique, rows) ==
    [exists |-> exists, columns |-> columns, unique |-> unique, rows |-> rows]

NoTable == Table(FALSE, <<>>, FALSE, {})

\* CREATE TABLE verses (database.py lines 36-49)
CreateTable == Table(TRUE, KeyColumns \o OptionalColumns, TRUE, {})

\* ALTER TABLE verses ADD COLUMN col TEXT: the column comes last and is NULL
\* in every row the table holds
AddColumn(t, col) ==
    [t EXCEPT !.columns = Append(@, col),
              !.rows = {[c \in Range(t.columns) \cup {col} |->
                            IF c = col THEN None ELSE r[c]] : r \in t.rows}]

\* database.py lines 83-105: the six tests against existing_columns, which
\* was read once before the first of them
RECURSIVE AddMissing(_, _, _)
AddMissing(t, existing_columns, i) ==
    IF i > Len(OptionalColumns) THEN t
    ELSE AddMissing(IF OptionalColumns[i] \notin existing_columns
                    THEN AddColumn(t, OptionalColumns[i])
                    ELSE t,
                    existing_columns, i + 1)

\* init_db with CREATE TABLE only: a table that exists is left as it is
init_db_create_only(t) ==
    IF ~t.exists THEN CreateTable ELSE t

\* database.init_db
init_db(t) ==
    IF ~t.exists THEN CreateTable
    ELSE AddMissing(t, Range(t.columns), 1)

\* The schema outside a run of init_db on its own: the table init_db leaves,
\* whose rows are the variable store.
SchemaReady == [runs |-> 0, table |-> CreateTable]

\* fetch_reply without the test of the order of the labels
fetch_reply_without_order_test(reply) ==
    IF reply.kind # "ok" THEN Failure
    ELSE LET text_content == reply.text
             sanskrit_start == find(text_content, sanskrit_label)
             telugu_verse_start == find(text_content, telugu_verse_label)
             telugu_meaning_start == find(text_content, telugu_meaning_label)
         IN  IF /\ sanskrit_start # -1
                /\ telugu_verse_start # -1
                /\ telugu_meaning_start # -1
             THEN <<strip(slice(text_content,
                                sanskrit_start + Len(sanskrit_label),
                                telugu_verse_start)),
                    clean_text(strip(slice(text_content,
                                telugu_verse_start + Len(telugu_verse_label),
                                telugu_meaning_start))),
                    clean_text(strip(slice(text_content,
                                telugu_meaning_start + Len(telugu_meaning_label),
                                Len(text_content))))>>
             ELSE Failure

\* gemini_utils.fetch_verse_from_gemini lines 84-154: the call and the
\* parsing of the reply the API gives
fetch_reply(reply) ==
    IF reply.kind # "ok" THEN Failure
    ELSE LET text_content == reply.text
             sanskrit_start == find(text_content, sanskrit_label)
             telugu_verse_start == find(text_content, telugu_verse_label)
             telugu_meaning_start == find(text_content, telugu_meaning_label)
         IN  IF /\ sanskrit_start # -1
                /\ telugu_verse_start # -1
                /\ telugu_meaning_start # -1
                /\ sanskrit_start < telugu_verse_start
                /\ telugu_verse_start < telugu_meaning_start
             THEN <<strip(slice(text_content,
                                sanskrit_start + Len(sanskrit_label),
                                telugu_verse_start)),
                    clean_text(strip(slice(text_content,
                                telugu_verse_start + Len(telugu_verse_label),
                                telugu_meaning_start))),
                    clean_text(strip(slice(text_content,
                                telugu_meaning_start + Len(telugu_meaning_label),
                                Len(text_content))))>>
             ELSE Failure

\* gemini_utils.enhance_verse_with_gemini lines 212-282: the call and the
\* parsing of the reply the API gives
enhance_reply(reply) ==
    IF reply.kind # "ok" THEN Failure
    ELSE LET text_content == reply.text
             pv_start == find(text_content, polished_verse_label)
             pm_start == find(text_content, polished_meaning_label)
             desc_start == find(text_content, description_label)
         IN  IF /\ pv_start # -1
                /\ pm_start # -1
                /\ desc_start # -1
                /\ pv_start < pm_start
                /\ pm_start < desc_start
             THEN <<clean_text(strip(slice(text_content,
                                pv_start + Len(polished_verse_label),
                                pm_start))),
                    clean_text(strip(slice(text_content,
                                pm_start + Len(polished_meaning_label),
                                desc_start))),
                    clean_text(strip(slice(text_content,
                                desc_start + Len(description_label),
                                Len(text_content))))>>
             ELSE Failure

\* what fetch_reply and enhance_reply give for each reply of the model
FetchOutcome == [reply \in FetchReplies |-> fetch_reply(reply)]
EnhanceOutcome == [reply \in EnhanceReplies |-> enhance_reply(reply)]

\* fetch_verse_from_gemini without the test of the credential
fetch_without_key_test(key, reply) == FetchOutcome[reply]

\* gemini_utils.fetch_verse_from_gemini: without the credential it returns
\* before calling the API
fetch_verse_from_gemini(key, reply) ==
    IF ~key THEN Failure ELSE FetchOutcome[reply]

\* enhance_verse_with_gemini without the test of the credential
enhance_without_key_test(key, reply) == EnhanceOutcome[reply]

\* gemini_utils.enhance_verse_with_gemini: without the credential it returns
\* before calling the API
enhance_verse_with_gemini(key, reply) ==
    IF ~key THEN Failure ELSE EnhanceOutcome[reply]

\* "all 3 values are not None", the success test of every caller
Fetched(t) == t[1] # None /\ t[2] # None /\ t[3] # None

\* populate_db.CHAPTER_VERSE_COUNTS, shrunk to three chapters: one of MaxVerse
\* verses, one the table gives no verses (populate_db.py line 45) and one of
\* a single verse
CHAPTER_VERSE_COUNTS == <<MaxVerse, 0, 1>>

\* ------------------------------------------------------ query service
\* A request argument parsed with type=int: <<>> when the parameter is
\* missing or is no integer (Python None), else <<n>>.  The requests of the
\* model name the first chapter.
ChapterArgs == {<<>>, <<0>>, <<1>>}
VerseArgs == {<<>>} \cup {<<n>> : n \in 0..MaxVerse}

\* validate with  < 0  in place of  <= 0
validate_zero_allowed(chapter, verse) ==
    IF chapter = <<>> \/ verse = <<>> THEN "missing"
    ELSE IF chapter[1] < 0 \/ verse[1] < 0 THEN "not_positive"
    ELSE "ok"

\* app.py lines 55-60: the two validation tests, in order
validate(chapter, verse) ==
    IF chapter = <<>> \/ verse = <<>> THEN "missing"
    ELSE IF chapter[1] <= 0 \/ verse[1] <= 0 THEN "not_positive"
    ELSE "ok"

\* Python's  a or b  on optional texts
Or(a, b) == IF Truthy(a) THEN a ELSE b

\* DatabaseResponse preferring the base text to the polished one
DatabaseResponseBaseFirst(verse_data) ==
    [status |-> 200,
     chapter |-> verse_data.chapter,
     verse |-> verse_data.verse,
     sanskrit_verse_telugu_script |-> verse_data.sanskrit_verse_telugu_script,
     telugu_verse |-> Or(verse_data.telugu_verse, verse_data.polished_telugu_verse),
     telugu_meaning |-> Or(verse_data.telugu_meaning, verse_data.polished_telugu_meaning),
     polished_telugu_verse |-> verse_data.polished_telugu_verse,
     polished_telugu_meaning |-> verse_data.polished_telugu_meaning,
     telugu_description |-> verse_data.telugu_description,
     source |-> "Database"]

\* app.py lines 73-88: the JSON served from a stored row
DatabaseResponse(verse_data) ==
    [status |-> 200,
     chapter |-> verse_data.chapter,
     verse |-> verse_data.verse,
     sanskrit_verse_telugu_script |-> verse_data.sanskrit_verse_telugu_script,
     telugu_verse |-> Or(verse_data.polished_telugu_verse, verse_data.telugu_verse),
     telugu_meaning |-> Or(verse_data.polished_telugu_meaning, verse_data.telugu_meaning),
     polished_telugu_verse |-> verse_data.polished_telugu_verse,
     polished_telugu_meaning |-> verse_data.polished_telugu_meaning,
     telugu_description |-> verse_data.telugu_description,
     source |-> "Database"]

\* GeminiResponse with the polished fields left absent
GeminiResponseUnpolished(chapter, verse, sanskrit, tverse, tmeaning) ==
    [status |-> 200,
     chapter |-> chapter,
     verse |-> verse,
     sanskrit_verse_telugu_script |-> sanskrit,
     telugu_verse |-> tverse,
     telugu_meaning |-> tmeaning,
     polished_telugu_verse |-> None,
     polished_telugu_meaning |-> None,
     telugu_description |-> None,
     source |-> "Gemini API (Initial Fetch & Cleaned)"]

\* app.py lines 105-115: the JSON served after a successful fetch
GeminiResponse(chapter, verse, sanskrit, tverse, tmeaning) ==
    [status |-> 200,
     chapter |-> chapter,
     verse |-> verse,
     sanskrit_verse_telugu_script |-> sanskrit,
     telugu_verse |-> tverse,
     telugu_meaning |-> tmeaning,
     polished_telugu_verse |-> tverse,
     polished_telugu_meaning |-> tmeaning,
     telugu_description |-> None,
     source |-> "Gemini API (Initial Fetch & Cleaned)"]

ErrorResponse(status) == [status |-> status]

\* the (chapter, verse) pairs a request can name
Keys == {<<c[1], v[1]>> : c \in ChapterArgs \ {<<>>}, v \in VerseArgs \ {<<>>}}

\* A request: not yet arrived ("idle"), between its store miss and its fetch
\* ("miss", with its arguments), or answered ("done").  after is the verse
\* text already answered from a fetch for its key when it arrived.
IdleReq == [pc |-> "idle", chapter |-> <<>>, verse |-> <<>>, after |-> {}]
DoneReq == [pc |-> "done", chapter |-> <<>>, verse |-> <<>>, after |-> {}]

\* The record of one answered request: its arguments, what had been answered
\* from a fetch for its key when it arrived, the Store and Content Provider
\* operations it performed, the row it read, the kind of reply its fetch got
\* ("no_key" when the credential is missing, "none" without a fetch), what
\* the fetch returned, whether its insert succeeded, and the response.
Answer(chapter, verse, after, ops, row, api, fetched, inserted, resp) ==
    [chapter |-> chapter, verse |-> verse, after |-> after, ops |-> ops,
     row |-> row, api |-> api, fetched |-> fetched, inserted |-> inserted,
     resp |-> resp]

NoAnswer ==
    Answer(<<>>, <<>>, {}, <<>>, {}, "none", Failure, FALSE, ErrorResponse(0))

FromGemini(a) ==
    /\ a.resp.status = 200
    /\ a.resp.source = "Gemini API (Initial Fetch & Cleaned)"

FromDatabase(a) ==
    /\ a.resp.status = 200
    /\ a.resp.source = "Database"

\* AfterInsert turning a refused insert into an error response
AfterInsertStrict(inserted, chapter, verse, sanskrit, tverse, tmeaning) ==
    IF inserted
    THEN GeminiResponse(chapter, verse, sanskrit, tverse, tmeaning)
    ELSE ErrorResponse(500)

\* app.py lines 101-115: the value of insert_verse_into_db is bound to
\* `inserted` and not looked at; the fetched data is returned
AfterInsert(inserted, chapter, verse, sanskrit, tverse, tmeaning) ==
    GeminiResponse(chapter, verse, sanskrit, tverse, tmeaning)

\* app.py lines 51-90: arguments, validation, the store lookup and, on a hit,
\* the answer.  Requests are numbered in their order of arrival.
ReqStart(r, chapter, verse) ==
    /\ req[r].pc = "idle"
    /\ \A q \in 1..(r - 1) : req[q].pc # "idle"
    /\ IF validate(chapter, verse) # "ok"
       THEN /\ out' = Answer(chapter, verse, {}, <<>>, {}, "none", Failure,
                             FALSE, ErrorResponse(400))
            /\ req' = [req EXCEPT ![r] = DoneReq]
       ELSE LET verse_data == get_verse_from_db(chapter[1], verse[1])
                after == served[<<chapter[1], verse[1]>>]
            IN  IF verse_data # {}
                THEN /\ out' = Answer(chapter, verse, after, <<"get">>,
                                      verse_data, "none", Failure, FALSE,
                                      DatabaseResponse(CHOOSE x \in verse_data : TRUE))
                     /\ req' = [req EXCEPT ![r] = DoneReq]
                ELSE /\ req' = [req EXCEPT ![r] =
                           [pc |-> "miss", chapter |-> chapter, verse |-> verse,
                            after |-> after]]
                     /\ UNCHANGED out
    /\ UNCHANGED <<store, nextId, GEMINI_API_KEY, served, pop, enh, norm, parse, call, schema, cln>>

\* app.py lines 93-121: the fetch, the insert and the answer
ReqFetch(r, reply) ==
    /\ req[r].pc = "miss"
    /\ LET chapter == req[r].chapter[1]
           verse == req[r].verse[1]
           api == IF GEMINI_API_KEY THEN reply.kind ELSE "no_key"
           t == fetch_verse_from_gemini(GEMINI_API_KEY, reply)
       IN  IF Fetched(t)
           THEN LET ins == insert_verse_into_db(chapter, verse, t[1], t[2], t[3])
                    resp == AfterInsert(ins.ok, chapter, verse, t[1], t[2], t[3])
                IN  /\ store' = ins.store
                    /\ nextId' = ins.nextId
                    /\ out' = Answer(req[r].chapter, req[r].verse, req[r].after,
                                     <<"get", "fetch", "insert">>, {}, api, t,
                                     ins.ok, resp)
                    /\ served' = IF resp.status = 200
                                 THEN [served EXCEPT ![<<chapter, verse>>] =
                                         @ \cup {[telugu_verse |-> resp.telugu_verse,
                                                  telugu_meaning |-> resp.telugu_meaning,
                                                  inserted |-> ins.ok]}]
                                 ELSE served
           ELSE /\ out' = Answer(req[r].chapter, req[r].verse, req[r].after,
                                 <<"get", "fetch">>, {}, api, t, FALSE,
                                 ErrorResponse(500))
                /\ UNCHANGED <<store, nextId, served>>
    /\ req' = [req EXCEPT ![r] = DoneReq]
    /\ UNCHANGED <<GEMINI_API_KEY, pop, enh, norm, parse, call, schema, cln>>

\* ----------------------------------------------------- batch populator
\* The populator: its place in the nested loops, the row read at the lookup
\* and what its last fetch returned.
PopIdle ==
    [pc |-> "idle", chapter |-> 0, verse |-> 0, verse_data |-> {},
     fetched |-> Failure]

\* ChapterFrom with `break` in place of `continue`: the run ends at the
\* first chapter that has no verses
RECURSIVE ChapterFromBreak(_)
ChapterFromBreak(c) ==
    IF c > Len(CHAPTER_VERSE_COUNTS) THEN 0
    ELSE IF CHAPTER_VERSE_COUNTS[c] = 0 THEN 0
    ELSE c

\* first chapter from c on that has verses (chapters with count 0 are
\* skipped), 0 when the table is exhausted
RECURSIVE ChapterFrom(_)
ChapterFrom(c) ==
    IF c > Len(CHAPTER_VERSE_COUNTS) THEN 0
    ELSE IF CHAPTER_VERSE_COUNTS[c] = 0 THEN ChapterFrom(c + 1)
    ELSE c

\* the populator at the top of the iteration for (chapter, verse)
PopAt(chapter, verse) ==
    IF chapter = 0
    THEN [pc |-> "done", chapter |-> 0, verse |-> 0, verse_data |-> {},
          fetched |-> Failure]
    ELSE [pc |-> "check", chapter |-> chapter, verse |-> verse,
          verse_data |-> {}, fetched |-> Failure]

\* the nested loops of populate_database: the iteration after (chapter, verse)
PopAdvance(chapter, verse) ==
    IF verse < CHAPTER_VERSE_COUNTS[chapter]
    THEN PopAt(chapter, verse + 1)
    ELSE PopAt(ChapterFrom(chapter + 1), 1)

\* populate_db.py lines 37-51: start of the run
PopStart ==
    /\ pop.pc = "idle"
    /\ pop' = PopAt(ChapterFrom(1), 1)
    /\ UNCHANGED <<store, nextId, GEMINI_API_KEY, req, out, served, enh, norm, parse, call, schema, cln>>

\* populate_db.py lines 56-65: the lookup; a row with sanskrit present is
\* skipped, without a delay
PopCheck ==
    /\ pop.pc = "check"
    /\ LET verse_data == get_verse_from_db(pop.chapter, pop.verse)
       IN  IF /\ verse_data # {}
              /\ \A x \in verse_data : x.sanskrit_verse_telugu_script # None
           THEN pop' = PopAdvance(pop.chapter, pop.verse)
           ELSE pop' = [pop EXCEPT !.pc = "fetch", !.verse_data = verse_data,
                                   !.fetched = Failure]
    /\ UNCHANGED <<store, nextId, GEMINI_API_KEY, req, out, served, enh, norm, parse, call, schema, cln>>

\* populate_db.py lines 67-90: the fetch, then update-in-place of the row
\* read at the lookup, or insert when none was read; then the delay
PopFetch(reply) ==
    /\ pop.pc = "fetch"
    /\ LET t == fetch_verse_from_gemini(GEMINI_API_KEY, reply)
       IN  /\ IF Fetched(t)
              THEN IF pop.verse_data # {}
                   THEN LET old == CHOOSE x \in pop.verse_data : TRUE
                        IN  /\ store' = update_verse_with_enhancements(
                                           pop.chapter, pop.verse, t[1], t[2],
                                           t[3], old.telugu_description).store
                            /\ UNCHANGED nextId
                   ELSE LET ins == insert_verse_into_db(pop.chapter, pop.verse,
                                                        t[1], t[2], t[3])
                        IN  /\ store' = ins.store
                            /\ nextId' = ins.nextId
              ELSE UNCHANGED <<store, nextId>>
           /\ pop' = [PopAdvance(pop.chapter, pop.verse) EXCEPT !.fetched = t]
    /\ UNCHANGED <<GEMINI_API_KEY, req, out, served, enh, norm, parse, call, schema, cln>>

\* ------------------------------------------------------ batch enhancer
\* The enhancer: the listed rows still to visit, the outcome of the
\* iteration just finished ("skipped", "enhanced", "failed") and whether
\* that iteration ended with the delay.
EnhIdle == [pc |-> "idle", todo |-> <<>>, last |-> "none", slept |-> FALSE]

\* enhance_db.py lines 39 and 62 with the delay only after a stored result
DelayedOnSuccess(last) == last = "enhanced"

\* enhance_db.py lines 39 and 62: time.sleep ends the iterations that reach
\* it; the `continue` of a skipped row does not
Delayed(last) == last \in {"enhanced", "failed"}

\* the enhancer with the rows rest still to visit
EnhAt(rest, last) ==
    [pc |-> IF rest = <<>> THEN "done" ELSE "loop", todo |-> rest,
     last |-> last, slept |-> Delayed(last)]

\* enhance_db.py lines 17-27: the list of rows to enhance, read once
EnhStart ==
    /\ enh.pc = "idle"
    /\ enh' = EnhAt(get_verses_to_enhance, "none")
    /\ UNCHANGED <<store, nextId, GEMINI_API_KEY, req, out, served, pop, norm, parse, call, schema, cln>>

\* Incomplete without the test of the sanskrit text
IncompleteVerseOrMeaning(verse_data) ==
    \/ ~Truthy(verse_data.telugu_verse)
    \/ ~Truthy(verse_data.telugu_meaning)

\* enhance_db.py line 37: original data missing
Incomplete(verse_data) ==
    \/ ~Truthy(verse_data.sanskrit_verse_telugu_script)
    \/ ~Truthy(verse_data.telugu_verse)
    \/ ~Truthy(verse_data.telugu_meaning)

\* enhance_db.py lines 29-39: a listed row that lacks original data is
\* skipped
EnhSkip ==
    /\ enh.pc = "loop"
    /\ Incomplete(Head(enh.todo))
    /\ enh' = EnhAt(Tail(enh.todo), "skipped")
    /\ UNCHANGED <<store, nextId, GEMINI_API_KEY, req, out, served, pop, norm, parse, call, schema, cln>>

\* enhance_db.py lines 41-62: the enhancement call, the update on success,
\* then the delay
EnhEnhance(reply) ==
    /\ enh.pc = "loop"
    /\ ~Incomplete(Head(enh.todo))
    /\ LET verse_data == Head(enh.todo)
           t == enhance_verse_with_gemini(GEMINI_API_KEY, reply)
       IN  /\ IF Fetched(t)
              THEN store' = update_verse_with_enhancements(
                               verse_data.chapter, verse_data.verse,
                               verse_data.sanskrit_verse_telugu_script,
                               t[1], t[2], t[3]).store
              ELSE UNCHANGED store
           /\ enh' = EnhAt(Tail(enh.todo),
                           IF Fetched(t) THEN "enhanced" ELSE "failed")
    /\ UNCHANGED <<nextId, GEMINI_API_KEY, req, out, served, pop, norm, parse, call, schema, cln>>

\* ---------------------------------------------------- cleanup workflow
\* cleanup_db.clean_text (lines 4-12) has the text of gemini_utils.clean_text
cleanup_clean_text(text) == clean_text(text)

\* cleanup_db.py lines 44-51
columns_to_clean == OptionalColumns

\* The cleanup_db.py run: not started ("idle"), in its loop over all_verses
\* ("loop", about to handle all_verses[i]) or finished ("done"); writes are
\* the UPDATE statements it has executed, each with the id and the columns
\* it set.
ClnOff ==
    [pc |-> "off", all_verses |-> <<>>, i |-> 1, writes |-> <<>>,
     cleaned_count |-> 0]

ClnIdle == [ClnOff EXCEPT !.pc = "idle"]

\* updated_values holding every column that has text, changed or not
updated_values_every_text(verse_data) ==
    LET texts == {c \in Range(columns_to_clean) : Truthy(verse_data[c])}
    IN  [c \in texts |-> cleanup_clean_text(verse_data[c])]

\* cleanup_db.py lines 53-64: the columns that have text which cleaning
\* changes, each with its cleaned text
updated_values(verse_data) ==
    LET changed == {c \in Range(columns_to_clean) :
                       /\ Truthy(verse_data[c])
                       /\ cleanup_clean_text(verse_data[c]) # verse_data[c]}
    IN  [c \in changed |-> cleanup_clean_text(verse_data[c])]

\* SET col = ? for every column of values, in one row
RECURSIVE SetColumns(_, _, _)
SetColumns(r, values, i) ==
    IF i > Len(columns_to_clean) THEN r
    ELSE LET c == columns_to_clean[i]
         IN  SetColumns(IF c \in DOMAIN values
                        THEN [r EXCEPT ![c] = values[c]]
                        ELSE r,
                        values, i + 1)

\* cleanup_db.py lines 73-78: UPDATE verses SET ... WHERE id = ?
update_by_id(rows, verse_id, values) ==
    {IF r.id = verse_id THEN SetColumns(r, values, 1) ELSE r : r \in rows}

\* cleanup_db.py lines 23-32: init_db, which finds the table it leaves, and
\* the read of every row; without rows the run ends
ClnStart ==
    /\ cln.pc = "idle"
    /\ LET all_verses == get_all_verses
       IN  cln' = [cln EXCEPT !.pc = IF all_verses = <<>> THEN "done" ELSE "loop",
                              !.all_verses = all_verses]
    /\ UNCHANGED <<store, nextId, GEMINI_API_KEY, req, out, served, pop, enh,
                   norm, parse, call, schema>>

\* cleanup_db.py lines 36-87: one iteration of the loop
ClnRow ==
    /\ cln.pc = "loop"
    /\ LET verse_data == cln.all_verses[cln.i]
           values == updated_values(verse_data)
           needs_update == DOMAIN values # {}
       IN  /\ store' = IF needs_update
                       THEN update_by_id(store, verse_data.id, values)
                       ELSE store
           /\ cln' = [cln EXCEPT
                        !.pc = IF cln.i = Len(cln.all_verses) THEN "done" ELSE "loop",
                        !.i = @ + 1,
                        !.writes = IF needs_update
                                   THEN Append(@, [id |-> verse_data.id,
                                                   values |-> values])
                                   ELSE @,
                        !.cleaned_count = IF needs_update THEN @ + 1 ELSE @]
    /\ UNCHANGED <<nextId, GEMINI_API_KEY, req, out, served, pop, enh,
                   norm, parse, call, schema>>

\* ---------------------------------------------------------------- system
\* Rows left by an earlier schema (chapter, verse, telugu_verse,
\* telugu_meaning): init_db added the other columns, which are NULL in them.
LegacyRow(id, chapter) ==
    Row(id, chapter, 1, None, <<"a">>, <<"a">>, None, None, None)

\* A row inserted by an earlier run of the server or of the populator
StoredRow(id, chapter) ==
    Row(id, chapter, 1, <<"a">>, <<"a">>, <<"a">>, None, None, None)

\* A row of an earlier run that an enhancer run has completed
EnhancedRow(id, chapter) ==
    Row(id, chapter, 1, <<"a">>, <<"a">>, <<"a">>, <<"c">>, <<"c">>, <<"c">>)

\* init_db keeps the table it finds.  The store holds the enhanced verse of
\* the last chapter and a row of the earlier schema of a chapter outside the
\* shrunk table; the first verse is absent, a row of the earlier schema, or
\* a row of an earlier run.
InitialStores ==
    {{LegacyRow(1, Len(CHAPTER_VERSE_COUNTS) + 1),
      EnhancedRow(2, Len(CHAPTER_VERSE_COUNTS))},
     {LegacyRow(1, Len(CHAPTER_VERSE_COUNTS) + 1),
      EnhancedRow(2, Len(CHAPTER_VERSE_COUNTS)),
      LegacyRow(3, 1)},
     {LegacyRow(1, Len(CHAPTER_VERSE_COUNTS) + 1),
      EnhancedRow(2, Len(CHAPTER_VERSE_COUNTS)),
      StoredRow(3, 1)}}

NormOff == [pc |-> "off", text |-> None, once |-> None, twice |-> None]

\* no operation of database.py is being called on its own
CallOff == [op |-> "none", args |-> <<>>, ok |-> FALSE]

\* no parser is being exercised on its own
ParseOff ==
    [pc |-> "off", parser |-> "none", reply |-> Reply("none", <<>>),
     prefix |-> <<>>, layout |-> <<>>, contents |-> <<>>, result |-> Failure]

\* After database.init_db(): the table is new and empty, or it existed and
\* holds rows of the earlier schema.  The credential is set or not.
Init ==
    /\ store \in InitialStores
    /\ nextId = Cardinality(store) + 1
    /\ GEMINI_API_KEY \in BOOLEAN
    /\ req = [r \in 1..NumReq |-> IdleReq]
    /\ out = NoAnswer
    /\ served = [k \in Keys |-> {}]
    /\ pop = PopIdle
    /\ enh = EnhIdle
    /\ norm = NormOff
    /\ parse = ParseOff
    /\ call = CallOff
    /\ schema = SchemaReady
    /\ cln = ClnOff

Next ==
    \/ \E r \in 1..NumReq, chapter \in ChapterArgs, verse \in VerseArgs :
          ReqStart(r, chapter, verse)
    \/ \E r \in 1..NumReq, reply \in FetchReplies : ReqFetch(r, reply)
    \/ PopStart
    \/ PopCheck
    \/ \E reply \in FetchReplies : PopFetch(reply)
    \/ EnhStart
    \/ EnhSkip
    \/ \E reply \in EnhanceReplies : EnhEnhance(reply)

Spec == Init /\ [][Next]_vars

\* ------------------------------------------------------------ properties
\* a listed record lacks a base field: sanskrit, verse text or meaning is
\* absent or empty
MissingBase(h) ==
    \/ h.sanskrit_verse_telugu_script \in {None, <<>>}
    \/ h.telugu_verse \in {None, <<>>}
    \/ h.telugu_meaning \in {None, <<>>}

\* the arguments of a request that validation must reject
Invalid(chapter, verse) ==
    \/ chapter = <<>>
    \/ verse = <<>>
    \/ chapter[1] <= 0
    \/ verse[1] <= 0

\* request r arrives in this step
Arrives(r) == req[r].pc = "idle" /\ req'[r].pc # "idle"

\* request r is answered after its fetch in this step
AnsweredAfterFetch(r) == req[r].pc = "miss" /\ req'[r].pc = "done"

\* C1: a request whose chapter or verse is missing or not positive is
\* answered 400 at once, having performed no Store operation and no Content
\* Provider call, and the store is unchanged.
C1_InvalidRejected ==
    [][\A r \in 1..NumReq :
          Arrives(r) =>
             /\ req'[r].pc = "miss" =>
                   ~Invalid(req'[r].chapter, req'[r].verse)
             /\ (req'[r].pc = "done" /\ Invalid(out'.chapter, out'.verse)) =>
                   /\ out'.resp.status = 400
                   /\ out'.ops = <<>>
                   /\ out'.api = "none"
                   /\ store' = store
                   /\ nextId' = nextId]_vars

\* a request with verse 0 was answered 400 while the store held a record
C1_Witness ==
    /\ out.verse = <<0>>
    /\ out.resp.status = 400
    /\ store # {}

\* C2 (as claimed): every request that arrives after a response fetched from
\* the Content Provider for its key is answered from the database, without a
\* fetch, with the telugu_verse and telugu_meaning of that first response.
C2_RepeatIdentical ==
    out.after # {} =>
       /\ FromDatabase(out)
       /\ out.ops = <<"get">>
       /\ \A p \in out.after :
             /\ out.resp.telugu_verse = p.telugu_verse
             /\ out.resp.telugu_meaning = p.telugu_meaning

\* C2 (amended): every request that arrives after a response fetched from
\* the Content Provider for its key is answered from the database, without a
\* fetch; its telugu_verse (telugu_meaning) is that of the first response
\* when the first request's own insert succeeded and the row read has no
\* polished verse (meaning).
C2_RepeatFromDatabase ==
    out.after # {} =>
       /\ FromDatabase(out)
       /\ out.ops = <<"get">>
       /\ \A p \in out.after, x \in out.row :
             /\ (p.inserted /\ ~Truthy(x.polished_telugu_verse)) =>
                   out.resp.telugu_verse = p.telugu_verse
             /\ (p.inserted /\ ~Truthy(x.polished_telugu_meaning)) =>
                   out.resp.telugu_meaning = p.telugu_meaning

\* a repeat request read the unpolished row that the first request inserted
C2_Witness ==
    /\ FromDatabase(out)
    /\ \E p \in out.after, x \in out.row :
          /\ p.inserted
          /\ x.polished_telugu_verse = None
          /\ out.resp.telugu_verse = <<"b">>

\* C3: no two records of the store have the same (chapter, verse).
C3_UniqueKey ==
    \A r1 \in store, r2 \in store :
       (r1.chapter = r2.chapter /\ r1.verse = r2.verse) => r1 = r2

\* an insert was refused because the key had a record, among other records
C3_Witness ==
    /\ out.ops = <<"get", "fetch", "insert">>
    /\ ~out.inserted
    /\ Cardinality(store) > 1

\* C4: every request whose fetch succeeded is answered 200 with the data it
\* fetched, whether or not its insert succeeded; the key then has exactly
\* one record, and at most one of the requests answered for a key inserted.
C4_LoserStillAnswered ==
    Fetched(out.fetched) =>
       /\ FromGemini(out)
       /\ out.resp.sanskrit_verse_telugu_script = out.fetched[1]
       /\ out.resp.telugu_verse = out.fetched[2]
       /\ out.resp.telugu_meaning = out.fetched[3]
       /\ Cardinality(RowsOf(store, out.chapter[1], out.verse[1])) = 1
       /\ \A p \in served[<<out.chapter[1], out.verse[1]>>],
             q \in served[<<out.chapter[1], out.verse[1]>>] :
             (p.inserted /\ q.inserted) => p = q

\* of two concurrent requests for a key, the one whose insert was refused
\* was answered with its own data, which differs from the stored record's
C4_Witness ==
    /\ FromGemini(out)
    /\ ~out.inserted
    /\ \E p \in served[<<out.chapter[1], out.verse[1]>>] : p.inserted
    /\ \E x \in RowsOf(store, out.chapter[1], out.verse[1]) :
          x.telugu_verse # out.resp.telugu_verse

\* C5: an insert on a key that has a record answers False and changes no
\* record; on a key without a record it answers True and adds exactly one
\* record, under an id no record had, with the polished columns and the
\* description absent.  (The populator does not look at the answer.)
C5_InsertContract ==
    [][/\ \A r \in 1..NumReq :
             (AnsweredAfterFetch(r) /\ out'.ops = <<"get", "fetch", "insert">>) =>
                IF RowsOf(store, req[r].chapter[1], req[r].verse[1]) # {}
                THEN /\ ~out'.inserted
                     /\ store' = store
                ELSE /\ out'.inserted
                     /\ \E x \in store' :
                           /\ x = Row(x.id, req[r].chapter[1], req[r].verse[1],
                                      out'.fetched[1], out'.fetched[2],
                                      out'.fetched[3], None, None, None)
                           /\ \A y \in store : y.id # x.id
                           /\ store' = store \cup {x}
       /\ (pop.pc = "fetch" /\ pop.verse_data = {} /\ pop' # pop) =>
             IF RowsOf(store, pop.chapter, pop.verse) # {}
             THEN store' = store
             ELSE \/ store' = store
                  \/ \E x \in store' :
                        /\ x.chapter = pop.chapter /\ x.verse = pop.verse
                        /\ x.polished_telugu_verse = None
                        /\ x.polished_telugu_meaning = None
                        /\ x.telugu_description = None
                        /\ \A y \in store : y.id # x.id
                        /\ store' = store \cup {x}]_vars

\* an insert was refused and the record of the key is still the one of the
\* earlier schema
C5_Witness ==
    /\ out.ops = <<"get", "fetch", "insert">>
    /\ ~out.inserted
    /\ \E x \in RowsOf(store, out.chapter[1], out.verse[1]) :
          x.telugu_verse # out.fetched[2]

\* C6: when the fetch of a request that missed the store fails (missing
\* credential, transport failure, no content, or a reply that does not
\* parse), the response is 500, no insert is made and the store is unchanged.
C6_FetchFailure ==
    [][\A r \in 1..NumReq :
          (AnsweredAfterFetch(r) /\ (out'.api # "ok" \/ ~Fetched(out'.fetched))) =>
             /\ out'.resp.status = 500
             /\ out'.ops = <<"get", "fetch">>
             /\ store' = store
             /\ nextId' = nextId]_vars

\* a request was answered 500 after a reply that did not parse
C6_Witness ==
    /\ out.resp.status = 500
    /\ out.api = "ok"
    /\ out.ops = <<"get", "fetch">>

\* the polished columns of the records that have one
PolishedOf(rows) ==
    {<<x.id, x.polished_telugu_verse, x.polished_telugu_meaning>> :
        x \in {y \in rows : y.polished_telugu_verse # None
                            \/ y.polished_telugu_meaning # None}}

\* this step is one of the enhancer on a row it does not skip
EnhancerStep ==
    /\ enh.pc = "loop"
    /\ enh' # enh
    /\ ~Incomplete(Head(enh.todo))
    /\ req' = req
    /\ pop' = pop

\* this step is the populator's update in place of a row it read without
\* sanskrit; it changes that row only
PopulatorUpdateStep ==
    /\ pop.pc = "fetch"
    /\ pop.verse_data # {}
    /\ pop' # pop
    /\ req' = req
    /\ enh' = enh
    /\ \A x \in store :
          (x.chapter # pop.chapter \/ x.verse # pop.verse) => x \in store'

\* C7 (as claimed): a polished verse or polished meaning is written only by
\* a step of the enhancer.
C7_OnlyEnhancer ==
    [][PolishedOf(store') # PolishedOf(store) => EnhancerStep]_vars

\* C7 (amended): a polished verse or polished meaning is written only by a
\* step of the enhancer or by the populator's update in place of a row that
\* lacked sanskrit; never by a request and never by an insert.
C7_EnhancerOrUpdate ==
    [][PolishedOf(store') # PolishedOf(store) =>
          EnhancerStep \/ PopulatorUpdateStep]_vars

\* the enhancer has written a polished verse
C7_Witness ==
    /\ enh.last = "enhanced"
    /\ \E x \in store : x.chapter = 1 /\ x.polished_telugu_verse = <<"c">>

\* C8: a text column that is set (not absent, not empty) stays set in every
\* step of the requests, the populator and the enhancer.
C8_NeverUnset ==
    [][\A x \in store, column \in TextColumns :
          Truthy(x[column]) =>
             \E y \in store' : y.id = x.id /\ Truthy(y[column])]_vars

\* C9: a response served from a stored row has the polished verse when the
\* polished and the base verse are both set and the base verse when only
\* that is set, likewise for the meaning; its description and its sanskrit
\* are the stored ones.
C9_PreferPolished ==
    FromDatabase(out) =>
       \A x \in out.row :
          /\ (Truthy(x.polished_telugu_verse) /\ Truthy(x.telugu_verse)) =>
                out.resp.telugu_verse = x.polished_telugu_verse
          /\ (~Truthy(x.polished_telugu_verse) /\ Truthy(x.telugu_verse)) =>
                out.resp.telugu_verse = x.telugu_verse
          /\ (Truthy(x.polished_telugu_meaning) /\ Truthy(x.telugu_meaning)) =>
                out.resp.telugu_meaning = x.polished_telugu_meaning
          /\ (~Truthy(x.polished_telugu_meaning) /\ Truthy(x.telugu_meaning)) =>
                out.resp.telugu_meaning = x.telugu_meaning
          /\ out.resp.telugu_description = x.telugu_description
          /\ out.resp.sanskrit_verse_telugu_script = x.sanskrit_verse_telugu_script

\* a response was served from a row whose polished verse differs from its
\* base verse
C9_Witness ==
    /\ FromDatabase(out)
    /\ \E x \in out.row :
          /\ Truthy(x.polished_telugu_verse)
          /\ Truthy(x.telugu_verse)
          /\ x.polished_telugu_verse # x.telugu_verse

\* --------------------------------------------- SpecNorm: clean_text alone
NormAlphabet == {"a", "*", "(", ")", " "}

NormTexts == {None} \cup UNION {[1..k -> NormAlphabet] : k \in 0..MaxLen}

SysOff ==
    /\ store = {}
    /\ nextId = 1
    /\ GEMINI_API_KEY = FALSE
    /\ req = <<>>
    /\ out = NoAnswer
    /\ served = <<>>
    /\ pop = <<>>
    /\ enh = <<>>

InitNorm ==
    /\ SysOff
    /\ parse = ParseOff
    /\ call = CallOff
    /\ schema = SchemaReady
    /\ cln = ClnOff
    /\ \E t \in NormTexts :
         norm = [pc |-> "text", text |-> t, once |-> None, twice |-> None]

CleanOnce ==
    /\ norm.pc = "text"
    /\ norm' = [norm EXCEPT !.pc = "once", !.once = clean_text(norm.text)]
    /\ UNCHANGED <<sysvars, parse, call, schema, cln>>

CleanTwice ==
    /\ norm.pc = "once"
    /\ norm' = [norm EXCEPT !.pc = "twice", !.twice = clean_text(norm.once)]
    /\ UNCHANGED <<sysvars, parse, call, schema, cln>>

NextNorm == CleanOnce \/ CleanTwice

SpecNorm == InitNorm /\ [][NextNorm]_vars

\* C10: normalize is idempotent: cleaning an already cleaned text returns it
\* unchanged.
C10_Idempotent == norm.pc = "twice" => norm.twice = norm.once

\* the keys of the rows that get_verses_to_enhance returns
ListedKeys ==
    {<<get_verses_to_enhance[i].chapter, get_verses_to_enhance[i].verse>> :
        i \in DOMAIN get_verses_to_enhance}

\* C13: get_verses_to_enhance returns exactly the records whose polished
\* verse or description is absent, in ascending (chapter, verse) order; it
\* never returns a record whose polished verse, polished meaning and
\* description are all set, and it returns every record that is not yet
\* enhanced (polished verse and description both non-empty).
C13_ListsNeeding ==
    /\ \A x \in store :
          <<x.chapter, x.verse>> \in ListedKeys <=>
             (x.polished_telugu_verse = None \/ x.telugu_description = None)
    /\ \A i \in DOMAIN get_verses_to_enhance, j \in DOMAIN get_verses_to_enhance :
          i < j =>
             \/ get_verses_to_enhance[i].chapter < get_verses_to_enhance[j].chapter
             \/ /\ get_verses_to_enhance[i].chapter = get_verses_to_enhance[j].chapter
                /\ get_verses_to_enhance[i].verse < get_verses_to_enhance[j].verse
    /\ \A x \in store :
          (/\ Truthy(x.polished_telugu_verse)
           /\ Truthy(x.polished_telugu_meaning)
           /\ Truthy(x.telugu_description)) => <<x.chapter, x.verse>> \notin ListedKeys
    /\ \A x \in store :
          ~(Truthy(x.polished_telugu_verse) /\ Truthy(x.telugu_description))
             => <<x.chapter, x.verse>> \in ListedKeys

\* C14: right after an insert on an absent key has succeeded, the lookup of
\* that key returns a record with the chapter, verse, sanskrit, verse text
\* and meaning inserted and with the polished verse, the polished meaning
\* and the description absent.
C14_RoundTrip ==
    [][\A r \in 1..NumReq :
          (AnsweredAfterFetch(r) /\ out'.inserted) =>
             LET got == get_verse_from_db(out.chapter[1], out.verse[1])'
             IN  /\ got # {}
                 /\ \A x \in got :
                       /\ x.chapter = req[r].chapter[1]
                       /\ x.verse = req[r].verse[1]
                       /\ x.sanskrit_verse_telugu_script = out'.fetched[1]
                       /\ x.telugu_verse = out'.fetched[2]
                       /\ x.telugu_meaning = out'.fetched[3]
                       /\ x.polished_telugu_verse = None
                       /\ x.polished_telugu_meaning = None
                       /\ x.telugu_description = None]_vars

\* an insert of cleaned text has succeeded beside another record
C14_Witness ==
    /\ out.inserted
    /\ out.fetched[2] = <<"b">>
    /\ Cardinality(store) > 1
    /\ get_verse_from_db(out.chapter[1], out.verse[1]) # {}

\* C15: a request whose fetch succeeded is answered 200 with source
\* "Gemini API (Initial Fetch & Cleaned)", the polished verse equal to the
\* verse, the polished meaning equal to the meaning and the description
\* absent; a request answered from a stored row has source "Database".
C15_ResponseShape ==
    /\ Fetched(out.fetched) =>
          /\ out.resp.status = 200
          /\ out.resp.source = "Gemini API (Initial Fetch & Cleaned)"
          /\ out.resp.polished_telugu_verse = out.resp.telugu_verse
          /\ out.resp.polished_telugu_meaning = out.resp.telugu_meaning
          /\ out.resp.telugu_verse = out.fetched[2]
          /\ out.resp.telugu_meaning = out.fetched[3]
          /\ out.resp.telugu_description = None
    /\ out.row # {} =>
          /\ out.resp.status = 200
          /\ out.resp.source = "Database"
    /\ out.resp.status = 200 =>
          (out.resp.source = "Database") = (out.row # {})

\* a request was answered with freshly fetched, cleaned text
C15_Witness ==
    /\ out.ops = <<"get", "fetch", "insert">>
    /\ out.inserted
    /\ out.resp.status = 200
    /\ out.resp.polished_telugu_verse = <<"b">>

EnhIteration == enh.pc = "loop" /\ enh' # enh

\* C19: each iteration of the enhancer takes the next listed record.  A
\* record that lacks a base field is skipped, the store unchanged; for any
\* other record the enhancement is called, and the store is changed only
\* when the call succeeded, by an update of that record that keeps its id,
\* key, verse text and meaning and every other record.
C19_EnhancerIteration ==
    [][EnhIteration =>
          LET h == Head(enh.todo)
          IN  /\ enh'.todo = Tail(enh.todo)
              /\ nextId' = nextId
              /\ MissingBase(h) =>
                    /\ enh'.last = "skipped"
                    /\ store' = store
              /\ ~MissingBase(h) =>
                    /\ enh'.last \in {"enhanced", "failed"}
                    /\ enh'.last = "failed" => store' = store
                    /\ enh'.last = "enhanced" =>
                          /\ Cardinality(store') = Cardinality(store)
                          /\ \A x \in store :
                                IF x.chapter = h.chapter /\ x.verse = h.verse
                                THEN \E y \in store' :
                                        /\ y.id = x.id
                                        /\ y.chapter = x.chapter
                                        /\ y.verse = x.verse
                                        /\ y.telugu_verse = x.telugu_verse
                                        /\ y.telugu_meaning = x.telugu_meaning
                                        /\ y.sanskrit_verse_telugu_script =
                                              h.sanskrit_verse_telugu_script
                                        /\ y.polished_telugu_verse # None
                                        /\ y.polished_telugu_meaning # None
                                        /\ y.telugu_description # None
                                ELSE x \in store']_vars

\* the enhancer has failed on a complete record, left it as it was, and
\* goes on to a record of the earlier schema
C19_Witness ==
    /\ enh.pc = "loop"
    /\ enh.last = "failed"
    /\ MissingBase(Head(enh.todo))
    /\ \E x \in store :
          /\ x.chapter = 1
          /\ ~MissingBase(x)
          /\ x.polished_telugu_verse = None

\* C20 (as claimed): the enhancer waits the delay between every two
\* consecutive iterations, whatever the outcome of the earlier one.
C20_DelayEveryIteration ==
    [][(EnhIteration /\ enh'.pc = "loop") => enh'.slept]_vars

\* C20 (amended): an iteration of the enhancer ends with the delay exactly
\* when it called the enhancement, whether the call succeeded or failed;
\* an iteration that skips a record lacking a base field ends without it.
C20_DelayAfterCall ==
    [][EnhIteration =>
          (enh'.slept <=> ~MissingBase(Head(enh.todo)))]_vars

\* the enhancer has waited after a failed enhancement, before the next
\* record
C20_Witness ==
    /\ enh.pc = "loop"
    /\ enh.last = "failed"
    /\ enh.slept

\* C23: under concurrent requests, every 200 response with source "Gemini
\* API (Initial Fetch & Cleaned)" carries the sanskrit, the verse and the
\* meaning of the record the store holds for its key when the request
\* completes.
C23_ResponseIsStored ==
    [][\A r \in 1..NumReq :
          (AnsweredAfterFetch(r) /\ FromGemini(out')) =>
             \E x \in RowsOf(store', out'.chapter[1], out'.verse[1]) :
                /\ x.sanskrit_verse_telugu_script =
                      out'.resp.sanskrit_verse_telugu_script
                /\ x.telugu_verse = out'.resp.telugu_verse
                /\ x.telugu_meaning = out'.resp.telugu_meaning]_vars

\* ------------------------------------------------------------ the parsers
\* Section contents of a completion: plain, with surrounding blanks, with
\* markdown, with a parenthetical, empty, and two that hold the text of a
\* label of the fetch prompt.
ParseContents ==
    { <<>>,
      <<"a">>,
      <<" ", "a", " ">>,
      <<"*", "*", "a">>,
      <<"a", " ", "(", "a", ")">>,
      <<"M", ":">>,
      <<"V", ":", "a">> }

\* a content that holds no label of either prompt
LabelFree(c) ==
    \A l \in {sanskrit_label, telugu_verse_label, telugu_meaning_label,
              polished_verse_label, polished_meaning_label, description_label} :
       find(c, l) = -1

\* text before the first label
ParsePrefixes == {<<>>, <<"a", " ">>}

\* the order in which the labels present in a completion occur: every
\* sequence of distinct label numbers, <<1, 2, 3>> being the order asked for
ParseLayouts ==
    {l \in UNION {[1..k -> 1..3] : k \in 0..3} :
        \A i \in DOMAIN l, j \in DOMAIN l : i # j => l[i] # l[j]}

\* the labels of a parser, in the order its prompt asks for
LabelsOf(parser) ==
    IF parser = "fetch"
    THEN <<sanskrit_label, telugu_verse_label, telugu_meaning_label>>
    ELSE <<polished_verse_label, polished_meaning_label, description_label>>

\* the completion text: the prefix, then each label of the layout followed
\* by its content
RECURSIVE Sections(_, _, _)
Sections(labels, layout, contents) ==
    IF layout = <<>> THEN <<>>
    ELSE labels[Head(layout)] \o Head(contents)
            \o Sections(labels, Tail(layout), Tail(contents))

CompletionText(parser, prefix, layout, contents) ==
    prefix \o Sections(LabelsOf(parser), layout, contents)

ParseAt(parser, reply, prefix, layout, contents) ==
    [pc |-> "reply", parser |-> parser, reply |-> reply, prefix |-> prefix,
     layout |-> layout, contents |-> contents, result |-> Failure]

InitParse ==
    /\ SysOff
    /\ norm = NormOff
    /\ call = CallOff
    /\ schema = SchemaReady
    /\ cln = ClnOff
    /\ \E parser \in {"fetch", "enhance"} :
          \/ \E kind \in {"http_error", "no_content"} :
                parse = ParseAt(parser, Reply(kind, <<>>), <<>>, <<>>, <<>>)
          \/ \E prefix \in ParsePrefixes, layout \in ParseLayouts,
                c1 \in ParseContents, c2 \in ParseContents, c3 \in ParseContents :
                LET contents == SubSeq(<<c1, c2, c3>>, 1, Len(layout))
                IN  parse = ParseAt(parser,
                                    Reply("ok", CompletionText(parser, prefix,
                                                               layout, contents)),
                                    prefix, layout, contents)

\* gemini_utils.py lines 85-154 on one reply
ParseFetch ==
    /\ parse.pc = "reply"
    /\ parse.parser = "fetch"
    /\ parse' = [parse EXCEPT !.pc = "done", !.result = fetch_reply(parse.reply)]
    /\ UNCHANGED <<sysvars, norm, call, schema, cln>>

\* gemini_utils.py lines 213-282 on one reply
ParseEnhance ==
    /\ parse.pc = "reply"
    /\ parse.parser = "enhance"
    /\ parse' = [parse EXCEPT !.pc = "done", !.result = enhance_reply(parse.reply)]
    /\ UNCHANGED <<sysvars, norm, call, schema, cln>>

NextParse == ParseFetch \/ ParseEnhance

SpecParse == InitParse /\ [][NextParse]_vars

\* C11: a completion with the three fetch labels in the order asked for is
\* parsed into its three sections: the sanskrit trimmed, the verse and the
\* meaning trimmed and then normalized.
C11_ParsesSections ==
    (/\ parse.pc = "done"
     /\ parse.parser = "fetch"
     /\ parse.layout = <<1, 2, 3>>) =>
       parse.result = <<strip(parse.contents[1]),
                        clean_text(strip(parse.contents[2])),
                        clean_text(strip(parse.contents[3]))>>


\* C12: both parsers are all-or-nothing.  The result is the failure triple
\* or has all three values; it is the failure triple when the call fails,
\* when the reply has no content, and when a label is missing or the labels
\* are out of order (in a completion whose sections hold no label text).
C12_AllOrNothing ==
    parse.pc = "done" =>
       /\ parse.result = Failure \/ Fetched(parse.result)
       /\ parse.reply.kind # "ok" => parse.result = Failure
       /\ (/\ parse.reply.kind = "ok"
           /\ parse.layout # <<1, 2, 3>>
           /\ \A i \in DOMAIN parse.contents : LabelFree(parse.contents[i]))
             => parse.result = Failure

\* the fetch parser has refused a completion whose labels are all present,
\* the second before the first
C12_Witness ==
    /\ parse.pc = "done"
    /\ parse.parser = "fetch"
    /\ parse.layout = <<2, 1, 3>>
    /\ parse.contents = <<<<"a">>, <<"a">>, <<"a">>>>
    /\ parse.result = Failure

\* ------------------------------------------- the store operations alone
\* the store, outside any run of the server or of the batch scripts
StoreOnly ==
    /\ store \in InitialStores
    /\ nextId = Cardinality(store) + 1
    /\ GEMINI_API_KEY = FALSE
    /\ req = <<>>
    /\ out = NoAnswer
    /\ served = <<>>
    /\ pop = <<>>
    /\ enh = <<>>

InitStore ==
    /\ StoreOnly
    /\ norm = NormOff
    /\ parse = ParseOff
    /\ call = CallOff
    /\ schema = SchemaReady
    /\ cln = ClnOff

\* texts passed to update_verse_with_enhancements: absent (the populator
\* passes the description it read), empty and non-empty
UpdateTexts == {None, <<>>, <<"c">>}

\* database.update_verse_with_enhancements called with any key and texts
CallUpdate(chapter, verse, sanskrit, pverse, pmeaning, desc) ==
    LET upd == update_verse_with_enhancements(chapter, verse, sanskrit,
                                              pverse, pmeaning, desc)
    IN  /\ store' = upd.store
        /\ call' = [op |-> "update",
                    args |-> <<chapter, verse, sanskrit, pverse, pmeaning, desc>>,
                    ok |-> upd.ok]
        /\ UNCHANGED <<nextId, GEMINI_API_KEY, req, out, served, pop, enh,
                       norm, parse, schema, cln>>

NextStore ==
    \E chapter \in 1..(Len(CHAPTER_VERSE_COUNTS) + 1), verse \in 1..MaxVerse,
       sanskrit \in {<<"a">>, <<"b">>}, pverse \in UpdateTexts \ {None},
       desc \in UpdateTexts :
       CallUpdate(chapter, verse, sanskrit, pverse, pverse, desc)

SpecStore == InitStore /\ [][NextStore]_vars

\* C17: update_verse_with_enhancements on a key without a record answers
\* False and leaves the store unchanged; on a key with a record it answers
\* True and overwrites the sanskrit, the polished verse, the polished
\* meaning and the description of that record, leaving its id, chapter,
\* verse, verse text and meaning and every other record unchanged.
C17_UpdateFrame ==
    [][call'.op = "update" =>
          LET a == call'.args
          IN  IF RowsOf(store, a[1], a[2]) = {}
              THEN /\ ~call'.ok
                   /\ store' = store
              ELSE /\ call'.ok
                   /\ Cardinality(store') = Cardinality(store)
                   /\ \A x \in store :
                         IF x.chapter = a[1] /\ x.verse = a[2]
                         THEN \E y \in store' :
                                 /\ y.id = x.id
                                 /\ y.chapter = x.chapter
                                 /\ y.verse = x.verse
                                 /\ y.telugu_verse = x.telugu_verse
                                 /\ y.telugu_meaning = x.telugu_meaning
                                 /\ y.sanskrit_verse_telugu_script = a[3]
                                 /\ y.polished_telugu_verse = a[4]
                                 /\ y.polished_telugu_meaning = a[5]
                                 /\ y.telugu_description = a[6]
                         ELSE x \in store']_vars

\* an update has overwritten a record and a later one was refused on a key
\* without a record
C17_Witness ==
    /\ call.op = "update"
    /\ ~call.ok
    /\ \E x \in store :
          /\ x.polished_telugu_verse = <<"c">>
          /\ x.telugu_verse = <<"a">>

\* ------------------------------------------------- the populator alone
\* the (chapter, verse) pairs of the table, in chapter-then-verse order
RECURSIVE PairsFrom(_)
PairsFrom(c) ==
    IF c > Len(CHAPTER_VERSE_COUNTS) THEN <<>>
    ELSE [v \in 1..CHAPTER_VERSE_COUNTS[c] |-> <<c, v>>] \o PairsFrom(c + 1)

TablePairs == PairsFrom(1)

\* Stores a run can find: each pair of the table absent, a row of the
\* earlier schema, or a row of an earlier run
PopStores ==
    {{IF kind[i] = "legacy"
      THEN Row(i, TablePairs[i][1], TablePairs[i][2], None, <<"a">>, <<"a">>,
               None, None, None)
      ELSE Row(i, TablePairs[i][1], TablePairs[i][2], <<"a">>, <<"a">>, <<"a">>,
               None, None, None) :
         i \in {j \in DOMAIN TablePairs : kind[j] # "absent"}} :
       kind \in [DOMAIN TablePairs -> {"absent", "legacy", "stored"}]}

InitPop ==
    /\ store \in PopStores
    /\ nextId = Len(TablePairs) + 1
    /\ GEMINI_API_KEY \in BOOLEAN
    /\ req = <<>>
    /\ out = NoAnswer
    /\ served = <<>>
    /\ pop = PopIdle
    /\ enh = EnhIdle
    /\ norm = NormOff
    /\ parse = ParseOff
    /\ call = CallOff
    /\ schema = SchemaReady
    /\ cln = ClnOff

NextPop ==
    \/ PopStart
    \/ PopCheck
    \/ \E reply \in FetchReplies : PopFetch(reply)

SpecPop == InitPop /\ [][NextPop]_vars

\* the populator stands at the top of the iteration for the i-th pair of
\* the table, or has finished when the table has no i-th pair
AtPair(p, i) ==
    IF i > Len(TablePairs)
    THEN p.pc = "done"
    ELSE p.pc = "check" /\ <<p.chapter, p.verse>> = TablePairs[i]

\* the place of the populator's current pair in the table
PopIndex ==
    CHOOSE i \in DOMAIN TablePairs : TablePairs[i] = <<pop.chapter, pop.verse>>

Keep(S) == SelectSeq(OptionalColumns, LAMBDA c : c \in S)

\* a row of an earlier run over the given columns: every text column it has
\* holds text
SchemaRow(columns, id) ==
    [c \in Range(columns) |->
        IF c \in {"id", "chapter"} THEN id
        ELSE IF c = "verse" THEN 1
        ELSE <<"a">>]

\* The database file when a process starts: without table verses, or with
\* the table of this or an earlier version of the schema (the key columns
\* and any of the six text columns), holding zero to two rows.
SchemaTables ==
    {NoTable} \cup
    {Table(TRUE, KeyColumns \o Keep(S), TRUE,
           {SchemaRow(KeyColumns \o Keep(S), id) : id \in 1..n}) :
        S \in SUBSET Range(OptionalColumns), n \in 0..2}

InitSchema ==
    /\ SysOff
    /\ norm = NormOff
    /\ parse = ParseOff
    /\ call = CallOff
    /\ cln = ClnOff
    /\ \E t \in SchemaTables : schema = [runs |-> 0, table |-> t]

\* one process start: database.init_db()
RunInitDb ==
    /\ schema.runs < MaxRuns
    /\ schema' = [runs |-> schema.runs + 1, table |-> init_db(schema.table)]
    /\ UNCHANGED <<sysvars, norm, parse, call, cln>>

NextSchema == RunInitDb

SpecSchema == InitSchema /\ [][NextSchema]_vars

\* C21: init_db on an existing table adds exactly those of the six optional
\* text columns that are missing and changes no existing column and no value
\* of an existing row; a second run changes nothing; without a table it
\* creates the table with all nine columns and UNIQUE(chapter, verse).
C21_SchemaInit ==
    [][schema'.runs = schema.runs + 1 =>
          LET t == schema.table
              u == schema'.table
              missing == Range(OptionalColumns) \ Range(t.columns)
          IN  /\ u.exists
              /\ ~t.exists =>
                    /\ u.columns =
                          <<"id", "chapter", "verse",
                            "sanskrit_verse_telugu_script", "telugu_verse",
                            "telugu_meaning", "polished_telugu_verse",
                            "polished_telugu_meaning", "telugu_description">>
                    /\ u.unique
                    /\ u.rows = {}
              /\ t.exists =>
                    /\ SubSeq(u.columns, 1, Len(t.columns)) = t.columns
                    /\ Len(u.columns) = Len(t.columns) + Cardinality(missing)
                    /\ Range(u.columns) = Range(t.columns) \cup missing
                    /\ u.unique = t.unique
                    /\ Cardinality(u.rows) = Cardinality(t.rows)
                    /\ \A r \in t.rows : \E q \in u.rows :
                          /\ DOMAIN q = Range(u.columns)
                          /\ \A c \in Range(t.columns) : q[c] = r[c]
              /\ schema.runs >= 1 => u = t]_vars

\* init_db has run twice on a table of an earlier schema that had the
\* meaning column only and held a row: the row has kept its meaning, and the
\* five added columns follow the meaning column and are NULL in the row
C21_Witness ==
    /\ schema.runs = 2
    /\ Len(schema.table.columns) = 9
    /\ schema.table.columns[4] = "telugu_meaning"
    /\ \E r \in schema.table.rows :
          /\ r["telugu_meaning"] = <<"a">>
          /\ r["telugu_verse"] = None

\* ------------------------------------------------ the cleanup run alone
\* Texts a column holds when the cleanup starts: absent, empty, clean, with
\* markdown, a parenthetical alone, and one whose cleaned form is not clean.
CleanTexts ==
    {None, <<>>, <<"a">>, <<"*", "*", "a">>, <<"(", "a", ")">>,
     <<"*", "(", ")", "*">>}

\* Stores the cleanup finds: empty, one record, or two records whose order
\* by key is not their order by id; between them every column varies.
CleanStores ==
    {{}} \cup
    {{Row(1, 2, 1, t1, t2, <<"a">>, None, None, None)} :
        t1 \in CleanTexts, t2 \in CleanTexts} \cup
    {{Row(1, 2, 1, t1, t2, <<"a">>, None, None, None),
      Row(2, 1, 1, <<"a">>, <<"a">>, t3, t4, t4, t3)} :
        t1 \in CleanTexts, t2 \in CleanTexts,
        t3 \in CleanTexts, t4 \in CleanTexts}

InitClean ==
    /\ store \in CleanStores
    /\ nextId = Cardinality(store) + 1
    /\ GEMINI_API_KEY = FALSE
    /\ req = <<>>
    /\ out = NoAnswer
    /\ served = <<>>
    /\ pop = <<>>
    /\ enh = <<>>
    /\ norm = NormOff
    /\ parse = ParseOff
    /\ call = CallOff
    /\ schema = SchemaReady
    /\ cln = ClnIdle

NextClean == ClnStart \/ ClnRow

SpecClean == InitClean /\ [][NextClean]_vars

\* the text of a column after the cleanup, as the claim states it
Normalized(t) ==
    IF t = None \/ clean_text(t) = t THEN t ELSE clean_text(t)

\* the columns of a record that the cleanup has to change
Unclean(v) == {c \in TextColumns : Normalized(v[c]) # v[c]}

\* C22: the cleanup changes no record's id, chapter or verse and creates and
\* deletes no record; a field that is absent or equal to its normalized form
\* is left untouched and is not written, every other text field is set to
\* normalize(old value); a record none of whose fields changes under
\* normalize receives no write.  (Records from all_verses[cln.i] on have not
\* been visited yet.)
C22_CleanupFrame ==
    cln.pc \in {"loop", "done"} =>
       /\ Cardinality(store) = Len(cln.all_verses)
       /\ \A k \in 1..Len(cln.all_verses) :
             LET v == cln.all_verses[k]
                 w == {j \in 1..Len(cln.writes) : cln.writes[j].id = v.id}
             IN  IF k < cln.i
                 THEN /\ \E y \in store :
                            /\ y.id = v.id
                            /\ y.chapter = v.chapter
                            /\ y.verse = v.verse
                            /\ \A c \in TextColumns : y[c] = Normalized(v[c])
                      /\ IF Unclean(v) = {} THEN w = {}
                         ELSE /\ Cardinality(w) = 1
                              /\ \A j \in w :
                                    DOMAIN cln.writes[j].values = Unclean(v)
                 ELSE /\ v \in store
                      /\ w = {}

\* the cleanup has finished on two records: it wrote one of them, setting a
\* text with markdown to its cleaned form and leaving an absent and a clean
\* field, and did not write the other, which was clean
C22_Witness ==
    /\ cln.pc = "done"
    /\ Len(cln.all_verses) = 2
    /\ Len(cln.writes) = 1
    /\ \E k \in 1..2 :
          LET v == cln.all_verses[k]
          IN  /\ v.id = cln.writes[1].id
              /\ v.telugu_meaning = <<"*", "*", "a">>
              /\ v.polished_telugu_verse = None
              /\ \E y \in store :
                    /\ y.id = v.id
                    /\ y.telugu_meaning = <<"a">>
                    /\ y.polished_telugu_verse = None
                    /\ y.telugu_verse = <<"a">>

====
